---- MODULE Spec2Model ----
(***************************************************************************)
(* Resumable, quota-aware comment scraper                                  *)
(* (Genre_specifc_analyis/scrape_comments/main.py).                        *)
(*                                                                         *)
(* The model follows run_scrape and scrape_video_comments statement by     *)
(* statement.  Durable storage is the state file (STATE_PATH) and the      *)
(* aggregated output (OUTPUT_PARQUET); everything else is memory of the    *)
(* running process and is lost when the process is killed.                 *)
(*                                                                         *)
(* The assignments mapping has two genres, 1 and 2 in its key order; the   *)
(* video at index i of genre g is <<g, i>>.                                *)
(* A comment row is <<g, i, k>>: the k-th item the page source delivers    *)
(* for video <<g, i>>.                                                     *)
(***************************************************************************)
EXTENDS Integers, Sequences, FiniteSets, TLC

\* Bounds of the model: videos over all genres, runs, the largest
\* max_comments_per_video, items on a page, pages of a video, entries of the
\* errors list of an error payload, genres marked completed in a row, ids
\* handed to fetch_video_metadata.
MaxVideos == 2
MaxRuns == 2
MaxCap == 2
MaxPageSize == 2
MaxPages == 2
MaxReasons == 2
MaxMarks == 3
MaxIds == 101

VARIABLES
    assignments,              \* genre -> number of videos assigned to it
    GENRES_PER_RUN,           \* module configuration: genres per run
    stateFile,                \* STATE_PATH: <<>> (no file) or <<state>>
    output,                   \* OUTPUT_PARQUET: sequence of rows
    pc,                       \* position of the process
    exit,                     \* how the last run ended
    run,                      \* number of runs started
    kills,                    \* number of times the process was killed
    already_scraped_genres,   \* argument of run_scrape
    max_comments_per_video,   \* argument of run_scrape, the same in every run
    state,                    \* run_scrape: state
    candidate_genres,         \* run_scrape: candidate_genres
    gi,                       \* position of the genre loop in candidate_genres
    idx,                      \* run_scrape: idx
    processed_genres_this_run,
    df_video,                 \* rows returned by the last scrape
    rate_limited,             \* flag returned by the last scrape
    rows,                     \* scrape_video_comments: rows
    total,                    \* scrape_video_comments: total
    request,                  \* scrape_video_comments: request (FALSE: None)
    pageNo,                   \* pages fetched so far in this scrape
    fetched,                  \* items delivered so far in this scrape
    failure,                  \* failure that ended the last scrape, if any
    loaded,                   \* history: the checkpoint this run loaded
    scraped,                  \* history: videos whose scrape this run started
    halts,                    \* history: <<run, g, i>> of rate-limit halts
    inflight,                 \* history: videos in flight at a kill
    rescraped,                \* history: videos scraped with rows in output
    rescrapes,                \* history: number of such scrapes
    page_source,              \* a given page source: the sizes of its pages
    http_error,               \* a given HttpError handed to the classifier
    verdict,                  \* what the classifier returned for it
    marks,                    \* the genres marked completed, in call order
    video_ids,                \* fetch_video_metadata: video_ids
    batch_i,                  \* fetch_video_metadata: i
    meta_rows,                \* fetch_video_metadata: rows
    meta_pc,                  \* position of the call of fetch_video_metadata
    requested,                \* history: the batches requested
    outcomes                  \* history: what each request gave

\* The variables of the calls of single functions on given inputs
\* The variables of a call of fetch_video_metadata
metaVars == <<video_ids, batch_i, meta_rows, meta_pc, requested, outcomes>>

callVars == <<page_source, http_error, verdict, marks, metaVars>>

runVars == <<assignments, GENRES_PER_RUN, stateFile, output, pc, exit, run, kills,
          already_scraped_genres, max_comments_per_video, state,
          candidate_genres, gi, idx, processed_genres_this_run, df_video,
          rate_limited, rows, total, request, pageNo, fetched, failure,
          loaded, scraped, halts, inflight, rescraped, rescrapes>>

vars == <<callVars, runVars>>

----------------------------------------------------------------------------
\* Data

\* assignments.keys(), in the mapping's order
AssignmentKeys == <<1, 2>>

Genres == {AssignmentKeys[k] : k \in 1..Len(AssignmentKeys)}

NoneValue == <<>>

EmptyDict == [k \in {} |-> 0]

Min(a, b) == IF a <= b THEN a ELSE b

Max(a, b) == IF a >= b THEN a ELSE b

SeqToSet(s) == {s[k] : k \in 1..Len(s)}

\* dict.get(k, default)
DictGet(d, k, default) == IF k \in DOMAIN d THEN d[k] ELSE default

\* d[k] = v
DictSet(d, k, v) == [x \in (DOMAIN d) \cup {k} |-> IF x = k THEN v ELSE d[x]]

\* sorted(set(...))
RECURSIVE SortedList(_)
SortedList(S) ==
    IF S = {} THEN <<>>
    ELSE LET m == CHOOSE x \in S : \A y \in S : x <= y
         IN  <<m>> \o SortedList(S \ {m})

\* s[:n]
Take(s, n) == SubSeq(s, 1, Min(n, Len(s)))

VideoId(g, i) == <<g, i>>

\* video_list of a genre: the ids at indices 0 .. len - 1
VideoListLen(g) == assignments[g]

----------------------------------------------------------------------------
\* State management

EmptyState ==
    [completed_genres |-> <<>>,
     per_genre_last_index |-> EmptyDict,
     last_video |-> NoneValue]

\* Mutant: without a file, every genre counts as attempted up to index 0.
load_state_stale(file) ==
    IF file # <<>> THEN file[1]
    ELSE [EmptyState EXCEPT !.per_genre_last_index = [g \in Genres |-> 0]]

\* The file holds the JSON text of the state; json.load gives back the lists,
\* the string-keyed dictionary and the integers that json.dump wrote.
load_state(file) == IF file # <<>> THEN file[1] ELSE EmptyState

\* Mutant: the write is lost.
save_state_lost(file, st) == file

save_state(file, st) == <<st>>

----------------------------------------------------------------------------
\* Rate-limit classification of an HttpError

Lower(s) ==
    CASE s = "quotaExceeded" -> "quotaexceeded"
      [] s = "rateLimitExceeded" -> "ratelimitexceeded"
      [] s = "RESOURCE_EXHAUSTED" -> "resource_exhausted"
      [] s = "PERMISSION_DENIED" -> "permission_denied"
      [] s = "NOT_FOUND" -> "not_found"
      [] s = "QUOTAEXCEEDED" -> "quotaexceeded"
      [] s = "userRateLimitExceeded" -> "userratelimitexceeded"
      [] s = "dailyLimitExceeded" -> "dailylimitexceeded"
      [] s = "usageLimitsExceeded" -> "usagelimitsexceeded"
      [] OTHER -> s

RateReasons ==
    {"quotaexceeded", "ratelimitexceeded", "userratelimitexceeded",
     "dailylimitexceeded", "usagelimitsexceeded"}

RateStatuses == {"resource_exhausted", "permission_denied"}

\* An HttpError: whether its content parses as JSON, the reasons of its
\* errors list, and the code and status of its error object ("" : absent).
HttpErrors ==
    [parses : BOOLEAN,
     reasons : {<<"forbidden">>, <<"forbidden", "rateLimitExceeded">>},
     code : {403},
     status : {""}]

\* Mutant: the reasons and the status are compared as they are written.
_is_rate_limit_error_cased(e) ==
    IF ~e.parses THEN FALSE
    ELSE \/ \E k \in 1..Len(e.reasons) : e.reasons[k] \in RateReasons
         \/ /\ e.code \in {403, 429}
            /\ e.status \in RateStatuses

_is_rate_limit_error(e) ==
    IF ~e.parses THEN FALSE
    ELSE \/ \E k \in 1..Len(e.reasons) : Lower(e.reasons[k]) \in RateReasons
         \/ /\ e.code \in {403, 429}
            /\ Lower(e.status) \in RateStatuses

----------------------------------------------------------------------------
\* scrape_video_comments

\* Mutant: the loop does not test the cap.
LoopCondition_nocap(req, tot, cap) == req

\* The while condition: request and total < max_total_comments
LoopCondition(req, tot, cap) == req /\ tot < cap

\* Mutant: the item loop without its test of the cap.
RECURSIVE AppendItems_uncapped(_, _, _, _, _)
AppendItems_uncapped(rs, vid, seen, n, cap) ==
    IF n = 0 THEN rs
    ELSE Append(AppendItems_uncapped(rs, vid, seen, n - 1, cap),
                <<vid[1], vid[2], seen + n>>)

\* The item loop over the first n items of a page: item k of the page is the
\* (seen + k)-th item of the video; a row is appended while total < cap.
RECURSIVE AppendItems(_, _, _, _, _)
AppendItems(rs, vid, seen, n, cap) ==
    IF n = 0 THEN rs
    ELSE LET before == AppendItems(rs, vid, seen, n - 1, cap)
         IN  IF Len(before) >= cap THEN before
             ELSE Append(before, <<vid[1], vid[2], seen + n>>)

\* Mutant: the next request is never built.
list_next_none(hasNext) == FALSE

\* list_next: None unless the response carries a continuation token
list_next(hasNext) == hasNext

----------------------------------------------------------------------------
\* append_to_outputs

\* Mutant: the rows are not written.
append_to_outputs_lost(out, df) == out

\* Mutant: the output is written from the new rows alone.
append_to_outputs_overwrite(out, df) == IF df = <<>> THEN out ELSE df

append_to_outputs(out, df) == IF df = <<>> THEN out ELSE out \o df

----------------------------------------------------------------------------
\* run_scrape

\* Mutant: the argument already_scraped_genres is ignored.
CandidateGenres_unskipped(skip, st) ==
    SelectSeq(AssignmentKeys, LAMBDA g : g \notin SeqToSet(st.completed_genres))

CandidateGenres(skip, st) ==
    LET skip_genres == skip \cup SeqToSet(st.completed_genres)
    IN  SelectSeq(AssignmentKeys, LAMBDA g : g \notin skip_genres)

\* Mutant: the resume index is the last attempted index itself.
start_index_same(st, g) == DictGet(st.per_genre_last_index, g, -1)

start_index(st, g) == DictGet(st.per_genre_last_index, g, -1) + 1

RECURSIVE SumRemaining(_, _)
SumRemaining(st, gs) ==
    IF gs = <<>> THEN 0
    ELSE Max(0, VideoListLen(Head(gs)) - start_index(st, Head(gs)))
         + SumRemaining(st, Tail(gs))

total_videos_in_run(st, cands) == SumRemaining(st, Take(cands, GENRES_PER_RUN))

\* Mutant: only last_video is updated.
MarkedState_noindex(st, g, i) == [st EXCEPT !.last_video = VideoId(g, i)]

\* Mutant: the index of a genre is set only when the genre has no entry.
MarkedState_setdefault(st, g, i) ==
    [st EXCEPT !.last_video = VideoId(g, i),
               !.per_genre_last_index = DictSet(@, g, DictGet(@, g, i))]

\* Lines 259-260: the state after the attempt of video i of genre g
MarkedState(st, g, i) ==
    [st EXCEPT !.last_video = VideoId(g, i),
               !.per_genre_last_index = DictSet(@, g, i)]

\* Mutant: the genre is appended and the list is left as it is.
CompletedState_append(st, g) ==
    [st EXCEPT !.completed_genres = Append(@, g)]

\* Mutant: the genre is not recorded.
CompletedState_same(st, g) == st

\* Lines 282-283
CompletedState(st, g) ==
    [st EXCEPT !.completed_genres = SortedList(SeqToSet(Append(@, g)))]

\* Mutants: the run never stops on the flag; the run stops after any video.
StopsRun_never(rl) == FALSE

StopsRun_always(rl) == TRUE

\* Line 264: whether the run stops after this video
StopsRun(rl) == rl

\* Mutant: the breakpoint comes one genre late.
BreakpointReached_late(processed) == processed > GENRES_PER_RUN

\* Line 288: whether the breakpoint is reached
BreakpointReached(processed) == processed >= GENRES_PER_RUN

HasRows(out, vid) ==
    \E k \in 1..Len(out) : out[k][1] = vid[1] /\ out[k][2] = vid[2]

genre == candidate_genres[gi]

----------------------------------------------------------------------------
\* Initial state and actions

\* The number of videos of the genres gs under the table f
RECURSIVE Videos(_, _)
Videos(f, gs) == IF gs = <<>> THEN 0 ELSE f[Head(gs)] + Videos(f, Tail(gs))

\* The process before its first run
RunInit ==
    /\ assignments \in {f \in [Genres -> 0..MaxVideos] :
                           Videos(f, AssignmentKeys) <= MaxVideos}
    /\ GENRES_PER_RUN \in 1..Len(AssignmentKeys)
    /\ stateFile = <<>>
    /\ output = <<>>
    /\ pc = "idle"
    /\ exit = "none"
    /\ run = 0
    /\ kills = 0
    /\ already_scraped_genres = {}
    /\ max_comments_per_video \in 0..MaxCap
    /\ state = EmptyState
    /\ candidate_genres = <<>>
    /\ gi = 1
    /\ idx = 0
    /\ processed_genres_this_run = 0
    /\ df_video = <<>>
    /\ rate_limited = FALSE
    /\ rows = <<>>
    /\ total = 0
    /\ request = FALSE
    /\ pageNo = 0
    /\ fetched = 0
    /\ failure = "none"
    /\ loaded = EmptyState
    /\ scraped = <<>>
    /\ halts = {}
    /\ inflight = {}
    /\ rescraped = {}
    /\ rescrapes = 0

\* fetch_video_metadata is not called
NoMetaCall ==
    /\ video_ids = <<>>
    /\ batch_i = 0
    /\ meta_rows = <<>>
    /\ meta_pc = "idle"
    /\ requested = <<>>
    /\ outcomes = <<>>

\* No single call is under way
NoCall ==
    /\ NoMetaCall
    /\ page_source = <<>>
    /\ http_error = NoneValue
    /\ verdict = NoneValue
    /\ marks = <<>>

Init == RunInit /\ NoCall

\* Lines 204-229: load, select the candidates, the two early returns.
StartRun(skip) ==
    /\ pc = "idle"
    /\ run < MaxRuns
    /\ LET st == load_state(stateFile)
           cands == CandidateGenres(skip, st)
       IN  /\ state' = st
           /\ loaded' = st
           /\ candidate_genres' = cands
           /\ IF cands = <<>>
              THEN pc' = "idle" /\ exit' = "no_candidates"
              ELSE IF total_videos_in_run(st, cands) = 0
                   THEN pc' = "idle" /\ exit' = "nothing_to_do"
                   ELSE pc' = "genre" /\ exit' = "none"
    /\ run' = run + 1
    /\ already_scraped_genres' = skip
    /\ gi' = 1
    /\ idx' = 0
    /\ processed_genres_this_run' = 0
    /\ df_video' = <<>>
    /\ rate_limited' = FALSE
    /\ rows' = <<>>
    /\ total' = 0
    /\ request' = FALSE
    /\ pageNo' = 0
    /\ fetched' = 0
    /\ failure' = "none"
    /\ scraped' = <<>>
    /\ UNCHANGED <<callVars, assignments, GENRES_PER_RUN, stateFile, output, kills,
                   max_comments_per_video, halts, inflight, rescraped,
                   rescrapes>>

\* Lines 231-237: top of the genre loop, range(start_index, len(video_list)).
EnterGenre ==
    /\ pc = "genre"
    /\ LET start == start_index(state, genre)
       IN  IF start < VideoListLen(genre)
           THEN idx' = start /\ pc' = "unit"
           ELSE idx' = idx /\ pc' = "complete"
    /\ UNCHANGED <<callVars, assignments, GENRES_PER_RUN, stateFile, output, exit, run,
                   kills, already_scraped_genres, max_comments_per_video,
                   state, candidate_genres, gi, processed_genres_this_run,
                   df_video, rate_limited, rows, total, request, pageNo,
                   fetched, failure, loaded, scraped, halts, inflight,
                   rescraped, rescrapes>>

\* The scrape returns (rs, rl) to run_scrape (lines 157 and 168), its locals
\* are gone, and run_scrape appends the rows to the output (lines 249-256).
Return(rs, rl, why) ==
    /\ df_video' = rs
    /\ rate_limited' = rl
    /\ failure' = why
    /\ output' = append_to_outputs(output, rs)
    /\ pc' = "mark"
    /\ rows' = <<>>
    /\ total' = 0
    /\ request' = FALSE
    /\ pageNo' = 0
    /\ fetched' = 0

\* Line 113 after an iteration (or at entry): another iteration, or line 168.
LoopOrReturn(rs, req, pages, seen) ==
    IF LoopCondition(req, Len(rs), max_comments_per_video)
    THEN /\ rows' = rs
         /\ total' = Len(rs)
         /\ request' = req
         /\ pageNo' = pages
         /\ fetched' = seen
         /\ pc' = "fetch"
         /\ df_video' = <<>>
         /\ failure' = "none"
         /\ UNCHANGED <<rate_limited, output>>
    ELSE Return(rs, FALSE, "none")

\* Lines 238-247 and 94-113: the call of scrape_video_comments, up to the
\* first test of the loop condition (which fails when the cap is 0).
BeginScrape ==
    /\ pc = "unit"
    /\ LoopOrReturn(<<>>, TRUE, 0, 0)
    /\ scraped' = Append(scraped, VideoId(genre, idx))
    /\ IF HasRows(output, VideoId(genre, idx))
       THEN /\ rescraped' = rescraped \cup {VideoId(genre, idx)}
            /\ rescrapes' = rescrapes + 1
       ELSE UNCHANGED <<rescraped, rescrapes>>
    /\ UNCHANGED <<callVars, assignments, GENRES_PER_RUN, stateFile, exit, run,
                   kills, already_scraped_genres, max_comments_per_video,
                   state, candidate_genres, gi, idx,
                   processed_genres_this_run, loaded, halts, inflight>>

ScrapeFrame ==
    UNCHANGED <<callVars, assignments, GENRES_PER_RUN, stateFile, exit, run,
                kills, already_scraped_genres, max_comments_per_video, state,
                candidate_genres, gi, idx, processed_genres_this_run, loaded,
                scraped, halts, inflight, rescraped, rescrapes>>

\* Lines 113-151: one iteration whose page arrives with n items and, when
\* hasNext, a continuation token (the last page of a video carries none).
FetchPageOk(n, hasNext) ==
    /\ pc = "fetch"
    /\ pageNo < MaxPages
    /\ hasNext => pageNo + 1 < MaxPages
    /\ LET rs == AppendItems(rows, VideoId(genre, idx), fetched, n,
                             max_comments_per_video)
           req == IF Len(rs) < max_comments_per_video
                  THEN list_next(hasNext) ELSE request
       IN  LoopOrReturn(rs, req, pageNo + 1, fetched + n)
    /\ ScrapeFrame

\* Lines 153-161: request.execute() raises an HttpError.
FetchPageHttpError(e) ==
    /\ pc = "fetch"
    /\ IF _is_rate_limit_error(e)
       THEN Return(rows, TRUE, "rate")
       ELSE Return(rows, FALSE, "error")
    /\ ScrapeFrame

\* Lines 163-166: any other exception, raised by the fetch (j = 0) or by the
\* flattening of an item after j items of the page were handled.
FetchPageException(j) ==
    /\ pc = "fetch"
    /\ Return(AppendItems(rows, VideoId(genre, idx), fetched, j,
                          max_comments_per_video), FALSE, "error")
    /\ ScrapeFrame

\* Lines 258-280 and the step of the video loop.
MarkAttempted ==
    /\ pc = "mark"
    /\ LET st == MarkedState(state, genre, idx)
       IN  /\ state' = st
           /\ stateFile' = save_state(stateFile, st)
    /\ IF StopsRun(rate_limited)
       THEN /\ pc' = "idle"
            /\ exit' = "halted"
            /\ halts' = halts \cup {<<run, genre, idx>>}
            /\ idx' = idx
            /\ UNCHANGED <<df_video, failure>>
       ELSE /\ IF idx + 1 < VideoListLen(genre)
               THEN idx' = idx + 1 /\ pc' = "unit"
               ELSE idx' = idx /\ pc' = "complete"
            /\ df_video' = <<>>
            /\ failure' = "none"
            /\ UNCHANGED <<exit, halts>>
    /\ UNCHANGED <<callVars, assignments, GENRES_PER_RUN, output, run, kills,
                   already_scraped_genres, max_comments_per_video,
                   candidate_genres, gi, processed_genres_this_run,
                   rate_limited, rows, total, request, pageNo, fetched,
                   loaded, scraped, inflight, rescraped, rescrapes>>

\* Lines 282-292 and the step of the genre loop.
CompleteGenre ==
    /\ pc = "complete"
    /\ LET st == CompletedState(state, genre)
       IN  /\ state' = st
           /\ stateFile' = save_state(stateFile, st)
    /\ processed_genres_this_run' = processed_genres_this_run + 1
    /\ IF BreakpointReached(processed_genres_this_run + 1)
       THEN pc' = "idle" /\ exit' = "breakpoint" /\ gi' = gi
       ELSE IF gi < Len(candidate_genres)
            THEN pc' = "genre" /\ exit' = exit /\ gi' = gi + 1
            ELSE pc' = "idle" /\ exit' = "all_processed" /\ gi' = gi
    /\ UNCHANGED <<callVars, assignments, GENRES_PER_RUN, output, run, kills,
                   already_scraped_genres, max_comments_per_video,
                   candidate_genres, idx, df_video, rate_limited, rows, total,
                   request, pageNo, fetched, failure, loaded, scraped, halts,
                   inflight, rescraped, rescrapes>>

\* The process is killed during a run: its memory is lost, the files stay.
\* A kill is followed here only while another run can still start.
Kill ==
    /\ pc # "idle"
    /\ run < MaxRuns
    /\ kills' = kills + 1
    /\ pc' = "idle"
    /\ exit' = "killed"
    /\ inflight' = IF pc \in {"fetch", "mark"}
                   THEN inflight \cup {VideoId(genre, idx)}
                   ELSE inflight
    /\ state' = EmptyState
    /\ candidate_genres' = <<>>
    /\ gi' = 1
    /\ idx' = 0
    /\ processed_genres_this_run' = 0
    /\ df_video' = <<>>
    /\ rate_limited' = FALSE
    /\ rows' = <<>>
    /\ total' = 0
    /\ request' = FALSE
    /\ pageNo' = 0
    /\ fetched' = 0
    /\ failure' = "none"
    /\ UNCHANGED <<callVars, assignments, GENRES_PER_RUN, stateFile, output, run,
                   already_scraped_genres, max_comments_per_video, loaded,
                   scraped, halts, rescraped, rescrapes>>

Next ==
    \/ \E skip \in SUBSET Genres : StartRun(skip)
    \/ EnterGenre
    \/ BeginScrape
    \/ \E n \in 0..MaxPageSize, hasNext \in BOOLEAN : FetchPageOk(n, hasNext)
    \/ \E e \in HttpErrors : FetchPageHttpError(e)
    \/ \E j \in 0..MaxPageSize - 1 : FetchPageException(j)
    \/ MarkAttempted
    \/ CompleteGenre
    \/ Kill

Spec == Init /\ [][Next]_vars

----------------------------------------------------------------------------
\* A call of _is_rate_limit_error on a given HttpError

\* Sequences over S of length at most n
RECURSIVE SeqsUpTo(_, _)
SeqsUpTo(S, n) ==
    IF n = 0 THEN {<<>>}
    ELSE LET shorter == SeqsUpTo(S, n - 1)
         IN  shorter \cup {Append(q, x) : q \in shorter, x \in S}

\* The reason of an entry of the errors list ("" : absent or null)
ReasonStrings ==
    {"", "forbidden", "quota", "quotaExceeded", "QUOTAEXCEEDED",
     "rateLimitExceeded", "userRateLimitExceeded", "dailyLimitExceeded",
     "usageLimitsExceeded"}

\* The status of the error object ("" : absent or null)
StatusStrings ==
    {"", "RESOURCE_EXHAUSTED", "PERMISSION_DENIED", "permission_denied",
     "NOT_FOUND"}

\* The code of the error object (0 : absent)
ErrorCodes == {0, 400, 403, 429}

\* The HttpErrors the classifier is called on: content that does not parse,
\* or a payload in the format of the API's error responses.
ClassifierInputs ==
    [parses : BOOLEAN,
     reasons : SeqsUpTo(ReasonStrings, MaxReasons),
     code : ErrorCodes,
     status : StatusStrings]

ClassifierInit ==
    /\ RunInit
    /\ assignments = [g \in Genres |-> 0]
    /\ GENRES_PER_RUN = 1
    /\ max_comments_per_video = 0
    /\ page_source = <<>>
    /\ NoMetaCall
    /\ http_error \in ClassifierInputs
    /\ verdict = NoneValue
    /\ marks = <<>>

\* Lines 39-62: the call returns
Classify ==
    /\ verdict = NoneValue
    /\ verdict' = <<_is_rate_limit_error(http_error)>>
    /\ UNCHANGED <<page_source, http_error, marks, metaVars, runVars>>

ClassifierNext == Classify

ClassifierSpec == ClassifierInit /\ [][ClassifierNext]_vars

----------------------------------------------------------------------------
\* A call of scrape_video_comments on a given page source

RECURSIVE SumPages(_)
SumPages(ps) == IF ps = <<>> THEN 0 ELSE Head(ps) + SumPages(Tail(ps))

\* A page source: the number of items of each of its pages; every page but
\* the last carries a continuation token.
PageSources == SeqsUpTo(0..MaxPageSize, MaxPages) \ {<<>>}

\* The page that request.execute() returns after pageNo pages
NextPage(n, hasNext) ==
    /\ pageNo < Len(page_source)
    /\ n = page_source[pageNo + 1]
    /\ hasNext = (pageNo + 1 < Len(page_source))

\* One genre with one video, no state file, no output
ScrapeInit ==
    /\ RunInit
    /\ assignments = [g \in Genres |-> IF g = AssignmentKeys[1] THEN 1 ELSE 0]
    /\ GENRES_PER_RUN = 1
    /\ NoMetaCall
    /\ page_source \in PageSources
    /\ http_error = NoneValue
    /\ verdict = NoneValue
    /\ marks = <<>>

\* The run up to the call, and the iterations whose fetch succeeds
ScrapeStep ==
    \/ StartRun({})
    \/ EnterGenre
    \/ BeginScrape
    \/ \E n \in 0..MaxPageSize, hasNext \in BOOLEAN :
           NextPage(n, hasNext) /\ FetchPageOk(n, hasNext)

\* An iteration that fails, in the fetch or within the items of the page
ScrapeFail ==
    \/ \E e \in HttpErrors : FetchPageHttpError(e)
    \/ \E j \in 0..MaxPageSize - 1 :
           /\ pageNo < Len(page_source)
           /\ j = 0 \/ j < page_source[pageNo + 1]
           /\ FetchPageException(j)

ScrapeNext == ScrapeStep \/ ScrapeFail

\* The loop keeps running; a failure may or may not happen.
ScrapeSpec == ScrapeInit /\ [][ScrapeNext]_vars /\ WF_vars(ScrapeStep)

----------------------------------------------------------------------------
\* Lines 282-284 applied to a checkpoint, for any genre and any number of times

CompleteInit == RunInit /\ NoCall

MarkComplete(g) ==
    /\ Len(marks) < MaxMarks
    /\ marks' = Append(marks, g)
    /\ LET st == CompletedState(state, g)
       IN  /\ state' = st
           /\ stateFile' = save_state(stateFile, st)
    /\ UNCHANGED <<metaVars, page_source, http_error, verdict, assignments,
                   GENRES_PER_RUN, output, pc, exit, run, kills,
                   already_scraped_genres, max_comments_per_video,
                   candidate_genres, gi, idx, processed_genres_this_run,
                   df_video, rate_limited, rows, total, request, pageNo,
                   fetched, failure, loaded, scraped, halts, inflight,
                   rescraped, rescrapes>>

CompleteNext == \E g \in Genres : MarkComplete(g)

CompleteSpec == CompleteInit /\ [][CompleteNext]_vars

----------------------------------------------------------------------------
\* A call of fetch_video_metadata (collect_video_metadata.py)

BATCH_SIZE == 50

\* An HttpError of videos().list: the status of its response, whether its
\* content parses, and the reasons of its errors list.
MetaHttpErrors ==
    [resp_status : {403, 429, 500},
     parses : BOOLEAN,
     reasons : {<<"forbidden">>, <<"QUOTAEXCEEDED">>,
                <<"forbidden", "rateLimitExceeded">>}]

\* Mutant: no failure counts as a rate limit.
meta_is_rate_limit_error_never(e) == FALSE

\* _is_rate_limit_error of collect_video_metadata.py
meta_is_rate_limit_error(e) ==
    IF e.resp_status \in {403, 429}
    THEN IF ~e.parses THEN FALSE
         ELSE \E k \in 1..Len(e.reasons) : Lower(e.reasons[k]) \in RateReasons
    ELSE FALSE

\* video_ids[i:i + BATCH_SIZE]
Batch(ids, j) == SubSeq(ids, j + 1, Min(j + BATCH_SIZE, Len(ids)))

\* The ids are distinct (main builds the list from a set): 1 .. n
MetaInit ==
    /\ RunInit
    /\ assignments = [g \in Genres |-> 0]
    /\ GENRES_PER_RUN = 1
    /\ max_comments_per_video = 0
    /\ page_source = <<>>
    /\ http_error = NoneValue
    /\ verdict = NoneValue
    /\ marks = <<>>
    /\ video_ids \in {[k \in 1..n |-> k] : n \in 0..MaxIds}
    /\ batch_i = 0
    /\ meta_rows = <<>>
    /\ meta_pc = "idle"
    /\ requested = <<>>
    /\ outcomes = <<>>

MetaFrame == UNCHANGED <<page_source, http_error, verdict, marks, runVars>>

\* range(0, len(video_ids), BATCH_SIZE): the next value of i, or the return
NextBatchOrReturn(j) ==
    IF j < Len(video_ids)
    THEN batch_i' = j /\ meta_pc' = "loop"
    ELSE batch_i' = batch_i /\ meta_pc' = "done"

\* Lines 76-79: the call, up to the first batch
BeginFetch ==
    /\ meta_pc = "idle"
    /\ NextBatchOrReturn(0)
    /\ UNCHANGED <<video_ids, meta_rows, requested, outcomes>>
    /\ MetaFrame

\* Lines 80-134: the request succeeds; the response has an item for every
\* id of the batch, or for every id but the first (a video that is gone).
BatchOk(dropFirst) ==
    /\ meta_pc = "loop"
    /\ LET batch == Batch(video_ids, batch_i)
           items == IF dropFirst THEN Tail(batch) ELSE batch
       IN  /\ meta_rows' = meta_rows \o items
           /\ requested' = Append(requested, batch)
           /\ outcomes' = Append(outcomes, [kind |-> "ok", items |-> items])
    /\ NextBatchOrReturn(batch_i + BATCH_SIZE)
    /\ UNCHANGED video_ids
    /\ MetaFrame

\* Lines 87-92: the request raises an HttpError
BatchHttpError(e) ==
    /\ meta_pc = "loop"
    /\ requested' = Append(requested, Batch(video_ids, batch_i))
    /\ outcomes' = Append(outcomes,
                          [kind |-> "http", items |-> <<>>, error |-> e])
    /\ IF meta_is_rate_limit_error(e)
       THEN batch_i' = batch_i /\ meta_pc' = "done"
       ELSE NextBatchOrReturn(batch_i + BATCH_SIZE)
    /\ UNCHANGED <<video_ids, meta_rows>>
    /\ MetaFrame

\* Lines 93-95: the request raises another exception
BatchException ==
    /\ meta_pc = "loop"
    /\ requested' = Append(requested, Batch(video_ids, batch_i))
    /\ outcomes' = Append(outcomes, [kind |-> "exception", items |-> <<>>])
    /\ NextBatchOrReturn(batch_i + BATCH_SIZE)
    /\ UNCHANGED <<video_ids, meta_rows>>
    /\ MetaFrame

MetaNext ==
    \/ BeginFetch
    \/ \E dropFirst \in BOOLEAN : BatchOk(dropFirst)
    \/ \E e \in MetaHttpErrors : BatchHttpError(e)
    \/ BatchException

MetaSpec == MetaInit /\ [][MetaNext]_vars

----------------------------------------------------------------------------
\* Vocabulary of the properties

\* The checkpoint in durable storage
Disk == load_state(stateFile)

LastIndex(st, g) == DictGet(st.per_genre_last_index, g, -1)

Completed(st) == SeqToSet(st.completed_genres)

IsPrefix(s, t) == Len(s) <= Len(t) /\ SubSeq(t, 1, Len(s)) = s

IsSuffix(s, t) ==
    Len(s) <= Len(t) /\ SubSeq(t, Len(t) - Len(s) + 1, Len(t)) = s

\* Position of a genre in the assignment order
Pos(g) == CHOOSE k \in 1..Len(AssignmentKeys) : AssignmentKeys[k] = g

Count(s, x) == Cardinality({k \in 1..Len(s) : s[k] = x})

\* First scrape of this run in the genre of scraped[k]
FirstInGenre(k) == \A j \in 1..(k - 1) : scraped[j][1] # scraped[k][1]

\* The candidates of the last started run and those within its budget
RunCandidates == CandidateGenres(already_scraped_genres, loaded)

FirstN == SeqToSet(Take(RunCandidates, GENRES_PER_RUN))

NormalExit == pc = "idle" /\ exit \in {"breakpoint", "all_processed"}

----------------------------------------------------------------------------
\* C1: a run never scrapes a video at or below the index its loaded
\* checkpoint records for the genre, and the first video it scrapes in a
\* genre is the one right after that index (index 0 without an entry).
C1_ResumeNeverReprocesses ==
    \A k \in 1..Len(scraped) :
        LET g == scraped[k][1]
            i == scraped[k][2]
        IN  /\ g \notin Completed(loaded)
            /\ i > LastIndex(loaded, g)
            /\ FirstInGenre(k) => i = LastIndex(loaded, g) + 1

\* A run resumed a genre in the middle.
C1_Witness ==
    \E k \in 1..Len(scraped) :
        /\ FirstInGenre(k)
        /\ scraped[k][2] >= 1
        /\ scraped[k][1] \in DOMAIN loaded.per_genre_last_index

\* C2: after a scrape returns the rate-limit flag, the rows are in the output,
\* the checkpoint records the video, and the run returns: no further video is
\* scraped and no genre is added to completed_genres, the halted video's own
\* genre included.
C2_RateLimitHaltsRun ==
    /\ rate_limited =>
           /\ pc \in {"mark", "idle"}
           /\ failure = "rate"
           /\ IsSuffix(df_video, output)
           /\ pc = "idle" => exit = "halted"
    /\ exit = "halted" =>
           /\ pc = "idle"
           /\ rate_limited
           /\ scraped # <<>>
           /\ stateFile = <<state>>
           /\ LET u == scraped[Len(scraped)]
              IN  /\ LastIndex(Disk, u[1]) = u[2]
                  /\ Disk.last_video = u
                  /\ u[1] \notin Completed(Disk)
           /\ Cardinality(Completed(Disk) \ Completed(loaded))
                  = processed_genres_this_run

\* The rate limit hit the last video of its genre after rows were collected.
C2_Witness ==
    /\ exit = "halted"
    /\ df_video # <<>>
    /\ scraped[Len(scraped)][2] + 1 = assignments[scraped[Len(scraped)][1]]

\* C3: a rate-limit halt on video i of genre G ends the run with
\* per_genre_last_index[G] = i and G not completed; every later run starts G
\* after i (the next run at i + 1) and scrapes no video of G at or below i.
C3_HaltedUnitMarkedAttempted ==
    /\ exit = "halted" =>
           LET u == scraped[Len(scraped)]
           IN  /\ <<run, u[1], u[2]>> \in halts
               /\ LastIndex(Disk, u[1]) = u[2]
               /\ u[1] \notin Completed(Disk)
    /\ \A h \in halts :
           /\ LastIndex(Disk, h[2]) >= h[3]
           /\ h[1] < run =>
                  /\ LastIndex(loaded, h[2]) >= h[3]
                  /\ h[1] = run - 1 => LastIndex(loaded, h[2]) = h[3]
                  /\ \A k \in 1..Len(scraped) :
                         scraped[k][1] = h[2] => scraped[k][2] > h[3]

\* The run after a halt scraped the video right after the halted one.
C3_Witness ==
    \E h \in halts :
        /\ h[1] < run
        /\ \E k \in 1..Len(scraped) : scraped[k] = <<h[2], h[3] + 1>>

C4_Inv ==
    /\ failure = "error" =>
           /\ pc = "mark"
           /\ ~rate_limited
           /\ exit = "none"
           /\ IsSuffix(df_video, output)
    /\ \A k \in 1..Len(scraped) : Count(scraped, scraped[k]) = 1

C4_Fail ==
    (pc = "fetch" /\ failure' = "error") =>
        /\ ~rate_limited'
        /\ IsPrefix(rows, df_video')
        /\ output' = output \o df_video'

C4_Continue ==
    (pc = "mark" /\ failure = "error" /\ exit' # "killed") =>
        /\ LastIndex(Disk', genre) = idx
        /\ Disk'.last_video = VideoId(genre, idx)
        /\ output' = output
        /\ exit' = "none"
        /\ IF idx + 1 < assignments[genre]
           THEN pc' = "unit" /\ idx' = idx + 1
           ELSE pc' = "complete"

\* C4: a failure that is not a rate limit ends only the scrape of its video:
\* the scrape returns the rows collected before it with the flag false, the
\* rows are in the output, the video is marked attempted and saved, the run
\* goes on to the next video (or to the completion of the genre), and no video
\* is scraped twice in a run.
C4_NonRateFailureAbandonsUnit ==
    [](C4_Inv) /\ [][C4_Fail /\ C4_Continue]_vars

\* A video that is not the last of its genre failed with rows collected.
C4_Witness ==
    /\ pc = "mark"
    /\ failure = "error"
    /\ df_video # <<>>
    /\ idx + 1 < assignments[genre]

\* C5: a scrape never holds or returns more than max_total_comments rows.
C5_CapRespected ==
    /\ Len(rows) <= max_comments_per_video
    /\ total = Len(rows)
    /\ Len(df_video) <= max_comments_per_video

\* A scrape returned exactly the cap, and the cap is not 0.
C5_Witness ==
    /\ pc = "mark"
    /\ max_comments_per_video >= 1
    /\ Len(df_video) = max_comments_per_video

\* C6: in a run from the empty checkpoint, the videos of a genre are scraped
\* once each in index order, genres in assignment order; a video of a later
\* genre is scraped only after every earlier candidate is saved as completed
\* with per_genre_last_index = (number of its videos) - 1, and a run that ends
\* without a halt has completed the candidates within its budget.
C6_GroupCompletion ==
    loaded = EmptyState =>
        /\ \A k \in 1..Len(scraped) :
               /\ scraped[k][2] =
                      Cardinality({j \in 1..(k - 1) :
                                       scraped[j][1] = scraped[k][1]})
               /\ \A j \in 1..(k - 1) : Pos(scraped[j][1]) <= Pos(scraped[k][1])
               /\ \A g \in Genres \ already_scraped_genres :
                      Pos(g) < Pos(scraped[k][1]) => g \in Completed(Disk)
        /\ \A g \in Completed(Disk) :
               /\ LastIndex(Disk, g) = assignments[g] - 1
               /\ \A i \in 0..(assignments[g] - 1) :
                      Count(scraped, <<g, i>>) = 1
        /\ NormalExit => Completed(Disk) = FirstN

\* A run from the empty checkpoint ended normally after two scrapes.
C6_Witness ==
    /\ loaded = EmptyState
    /\ NormalExit
    /\ Len(scraped) >= 2
    /\ \E g \in Completed(Disk) : assignments[g] >= 1

C8_CheckpointAfterEveryUnit ==
    /\ \A k \in 1..(Len(scraped) - 1) :
           LastIndex(Disk, scraped[k][1]) >= scraped[k][2]
    /\ (/\ scraped # <<>>
        /\ \/ pc \in {"unit", "complete", "genre"}
           \/ pc = "idle" /\ exit \in {"halted", "breakpoint", "all_processed"})
           => /\ LastIndex(Disk, scraped[Len(scraped)][1])
                     = scraped[Len(scraped)][2]
              /\ stateFile = <<state>>

\* Between the scrapes of two videos of a genre.
C8_Witness ==
    /\ pc = "unit"
    /\ scraped # <<>>
    /\ scraped[Len(scraped)] = <<genre, idx - 1>>

\* C9: a video is scraped while its rows are already in the output at most
\* once per kill, and only if it was in flight at a kill.
C9_CrashRestart ==
    /\ rescrapes <= kills
    /\ rescraped \subseteq inflight

\* The restarted run scraped the video whose rows the killed run had appended.
C9_Witness ==
    /\ rescrapes = 1
    /\ kills = 1

\* C10: a run scrapes no video of a genre in already_scraped_genres and leaves
\* its checkpoint entries as loaded; the candidates are in assignment order.
C10_SkipSetUntouched ==
    /\ \A g \in already_scraped_genres :
           /\ \A k \in 1..Len(scraped) : scraped[k][1] # g
           /\ g \in DOMAIN Disk.per_genre_last_index
                  <=> g \in DOMAIN loaded.per_genre_last_index
           /\ LastIndex(Disk, g) = LastIndex(loaded, g)
           /\ g \in Completed(Disk) <=> g \in Completed(loaded)
    /\ \A k \in 1..Len(candidate_genres) :
           /\ candidate_genres[k] \notin already_scraped_genres
           /\ \A j \in 1..(k - 1) :
                  Pos(candidate_genres[j]) < Pos(candidate_genres[k])
    /\ \A k \in 1..Len(scraped) :
           \A j \in 1..(k - 1) : Pos(scraped[j][1]) <= Pos(scraped[k][1])

\* A genre with a checkpoint entry, not completed, was skipped while the
\* other genre was scraped.
C10_Witness ==
    /\ scraped # <<>>
    /\ \E g \in already_scraped_genres :
           /\ g \in DOMAIN loaded.per_genre_last_index
           /\ g \notin Completed(loaded)

\* The spellings among ReasonStrings that are, up to case, one of the known
\* quota and rate terms, and the classifications among StatusStrings that
\* are, up to case, resource-exhausted or permission-denied.
C11_KnownSpellings ==
    {"quotaExceeded", "QUOTAEXCEEDED", "rateLimitExceeded",
     "userRateLimitExceeded", "dailyLimitExceeded", "usageLimitsExceeded"}

C11_Classifications ==
    {"RESOURCE_EXHAUSTED", "PERMISSION_DENIED", "permission_denied"}

C11_Expected(e) ==
    /\ e.parses
    /\ \/ \E k \in 1..Len(e.reasons) : e.reasons[k] \in C11_KnownSpellings
       \/ e.code \in {403, 429} /\ e.status \in C11_Classifications

\* C11: _is_rate_limit_error returns True exactly when the payload parses and
\* either one of its reasons is, up to case, a known quota or rate term, or
\* its code is 403 or 429 and its status is, up to case, resource-exhausted or
\* permission-denied; it returns False otherwise, also when the payload does
\* not parse.
C11_ClassifierResult ==
    verdict # NoneValue => verdict[1] = C11_Expected(http_error)

\* An upper-case reason alone made the verdict True.
C11_Witness ==
    /\ verdict = <<TRUE>>
    /\ http_error.reasons = <<"forbidden", "QUOTAEXCEEDED">>
    /\ http_error.code = 400

\* The first n items of the video, in the order of the page source
C12_FirstItems(n) == [k \in 1..n |-> <<genre, idx, k>>]

\* C12: when no fetch fails, the scrape returns the first
\* min(cap, number of items of all pages) items of the page source, in page
\* order and in-page order, and the flag is false.
C12_ScrapeResult ==
    (pc = "mark" /\ failure = "none") =>
        /\ df_video = C12_FirstItems(Min(max_comments_per_video,
                                         SumPages(page_source)))
        /\ ~rate_limited
        /\ output = df_video

\* The cap was reached within the second page: 1 + 1 of 1 + 2 items.
C12_Witness ==
    /\ pc = "mark"
    /\ failure = "none"
    /\ page_source = <<1, 2>>
    /\ max_comments_per_video = 2
    /\ Len(df_video) = 2

C13_Attempt ==
    (pc = "mark" /\ exit' # "killed") =>
        /\ LastIndex(Disk', genre) = idx
        /\ Disk'.last_video = VideoId(genre, idx)
        /\ state' = Disk'

C13_Monotone ==
    \A g \in Genres :
        /\ LastIndex(Disk', g) >= LastIndex(Disk, g)
        /\ g \in DOMAIN Disk.per_genre_last_index
               => g \in DOMAIN Disk'.per_genre_last_index

C14_Persist == pc \in {"unit", "fetch"} /\ pc' = "mark"

\* C14: the persist step of a video keeps the stored rows, in their order,
\* as a prefix of the new output and adds the returned rows at the end in
\* the order returned; it changes nothing when no rows were returned; no
\* other step changes the output.
C14_OutputAppendOnly ==
    [][/\ IsPrefix(output, output')
       /\ C14_Persist => /\ output' = output \o df_video'
                          /\ df_video' = <<>> => output' = output
       /\ ~C14_Persist => output' = output]_vars

\* Rows were appended behind the rows of an earlier video.
C14_Witness ==
    /\ pc = "mark"
    /\ df_video # <<>>
    /\ Len(output) > Len(df_video)
    /\ output[1][2] # idx

\* C15: however often and in whatever order genres are marked completed,
\* completed_genres holds exactly the genres marked, each once, so marking a
\* genre again leaves the set as it was; the saved checkpoint is the same.
C15_MarkCompleteIdempotent ==
    /\ Completed(state) = SeqToSet(marks)
    /\ Len(state.completed_genres) = Cardinality(SeqToSet(marks))
    /\ marks # <<>> => Disk = state

\* The same genre was marked twice, with another one in between.
C15_Witness ==
    /\ Len(marks) = 3
    /\ marks[1] = marks[3]
    /\ marks[1] # marks[2]

C17_Inv ==
    /\ pc = "fetch" =>
           /\ total < max_comments_per_video
           /\ request
           /\ pageNo < Len(page_source)
           /\ fetched = SumPages(Take(page_source, pageNo))
    /\ max_comments_per_video = 0 =>
           /\ pc # "fetch"
           /\ df_video = <<>>
           /\ output = <<>>

\* C17: a page is fetched only while the rows are below the cap and the last
\* page fetched carried a continuation token; with cap 0 no page is fetched
\* and the result is empty; for every page source whose last page carries no
\* token the scrape returns.
C17_PaginationTerminates == [](C17_Inv) /\ <>(pc = "mark")

\* The scrape returned below the cap because the second page had no token.
C17_Witness ==
    /\ pc = "mark"
    /\ failure = "none"
    /\ page_source = <<1, 0>>
    /\ max_comments_per_video = 2
    /\ Len(df_video) = 1

\* C18: without a state file load_state returns the checkpoint with no
\* completed genre, no index and no last video; the first run, which finds no
\* file, starts every genre it scrapes at index 0, scrapes the videos of a
\* genre in strictly increasing index order, and the genres in assignment
\* order.
C18_FirstRunFromEmpty ==
    /\ stateFile = <<>> =>
           /\ Disk.completed_genres = <<>>
           /\ DOMAIN Disk.per_genre_last_index = {}
           /\ Disk.last_video = NoneValue
           /\ run >= 1 => loaded = Disk
    /\ run = 1 =>
           /\ loaded.completed_genres = <<>>
           /\ DOMAIN loaded.per_genre_last_index = {}
           /\ loaded.last_video = NoneValue
           /\ \A k \in 1..Len(scraped) :
                  /\ FirstInGenre(k) => scraped[k][2] = 0
                  /\ \A j \in 1..(k - 1) :
                         IF scraped[j][1] = scraped[k][1]
                         THEN scraped[j][2] < scraped[k][2]
                         ELSE Pos(scraped[j][1]) < Pos(scraped[k][1])

\* The first run scraped a video of each of the two genres.
C18_Witness ==
    /\ run = 1
    /\ Len(scraped) = 2
    /\ scraped[1][1] # scraped[2][1]

\* C19: repeated runs without rate limit and crash eventually complete every
\* genre outside the skip set.  A run that returns by "Nothing to do" has
\* changed neither file, so every later run with the same arguments returns
\* the same way; the claim therefore requires that such a return happens only
\* when every genre outside the skip set is completed, the genres without
\* videos and those whose last video an earlier run attempted included.
C19_EventualCompletion ==
    (pc = "idle" /\ exit = "nothing_to_do") =>
        (Genres \ already_scraped_genres) \subseteq Completed(Disk)

\* The rows a scrape returned are in the output while the video is marked.
C20_Inv == pc = "mark" => IsSuffix(df_video, output)

\* A step that changes an index or the last video of the saved checkpoint
C20_Save ==
    (\/ Disk'.per_genre_last_index # Disk.per_genre_last_index
     \/ Disk'.last_video # Disk.last_video) =>
        /\ pc = "mark"
        /\ Disk'.per_genre_last_index =
               DictSet(Disk.per_genre_last_index, genre, idx)
        /\ LastIndex(Disk, genre) < idx
        /\ IsSuffix(df_video, output)
        /\ output' = output

\* C20: the saved checkpoint never records a video whose returned rows are
\* not in the output: the save that records a video comes after the append
\* of its rows, it records that video only, and the rows in the output stay
\* there; this holds in every state, so also wherever the process is killed.
C20_CheckpointBehindOutput ==
    [](C20_Inv) /\ [][C20_Save /\ IsPrefix(output, output')]_vars

\* The rows of the second video of a genre are in the output and the saved
\* checkpoint still records the first.
C20_Witness ==
    /\ pc = "mark"
    /\ df_video # <<>>
    /\ idx = 1
    /\ LastIndex(Disk, genre) = 0

C21_FullyAttempted(st) ==
    /\ \A g \in Completed(st) :
           \/ assignments[g] = 0
           \/ LastIndex(st, g) = assignments[g] - 1
    /\ \A g \in DOMAIN st.per_genre_last_index :
           /\ g \in Genres
           /\ 0 <= st.per_genre_last_index[g]
           /\ st.per_genre_last_index[g] <= assignments[g] - 1

\* C21: in every state reached from the empty checkpoint, a genre in
\* completed_genres has no video or its recorded index is that of its last
\* video, and every recorded index is an index of a video of its genre; this
\* holds of the saved checkpoint and of the state of the running process.
C21_CompletedImpliesAttempted ==
    /\ C21_FullyAttempted(Disk)
    /\ C21_FullyAttempted(state)

\* A genre with two videos was completed by a run that resumed it after an
\* earlier run had left it in the middle.
C21_Witness ==
    \E g \in Completed(Disk) :
        /\ assignments[g] = 2
        /\ LastIndex(loaded, g) = 0
        /\ g \notin Completed(loaded)

\* A request that failed with what collect_video_metadata.py takes for a rate
\* limit: response status 403 or 429 and a known quota or rate reason
C22_IsRateLimit(o) ==
    /\ o.kind = "http"
    /\ o.error.resp_status \in {403, 429}
    /\ o.error.parses
    /\ \E k \in 1..Len(o.error.reasons) :
           o.error.reasons[k] \in C11_KnownSpellings

RECURSIVE C22_Concat(_)
C22_Concat(ss) == IF ss = <<>> THEN <<>> ELSE Head(ss) \o C22_Concat(Tail(ss))

C22_Items == C22_Concat([k \in 1..Len(outcomes) |-> outcomes[k].items])

\* C22: a rate-limit failure is the last request of the call; the rows are
\* exactly the items of the requests that succeeded, in order; after any
\* other failure the loop goes on, so a call that returns without a rate
\* limit has requested every id; the batches requested are consecutive
\* slices of video_ids of 1 to 50 ids, so no id is requested twice.
C22_MetadataBatchPolicy ==
    /\ Len(outcomes) = Len(requested)
    /\ \A k \in 1..Len(requested) :
           Len(requested[k]) >= 1 /\ Len(requested[k]) <= 50
    /\ IsPrefix(C22_Concat(requested), video_ids)
    /\ \A k \in 1..Len(outcomes) :
           C22_IsRateLimit(outcomes[k]) =>
               k = Len(outcomes) /\ meta_pc = "done"
    /\ meta_rows = C22_Items
    /\ meta_pc = "loop" =>
           /\ batch_i < Len(video_ids)
           /\ Len(C22_Concat(requested)) = batch_i
    /\ meta_pc = "done" =>
           \/ outcomes # <<>> /\ C22_IsRateLimit(outcomes[Len(outcomes)])
           \/ C22_Concat(requested) = video_ids

\* Of three batches the first succeeded, the second failed otherwise and
\* the third hit the rate limit.
C22_Witness ==
    /\ meta_pc = "done"
    /\ Len(outcomes) = 3
    /\ outcomes[1].kind = "ok"
    /\ outcomes[2].kind = "http"
    /\ C22_IsRateLimit(outcomes[3])
    /\ Len(meta_rows) = 50

====
